---- MODULE Spec2Model ----
(***************************************************************************)
(* Model of the pefs(8) key-chain commands (sbin/pefs/pefs_ctl.c) and of   *)
(* the key-chain store they call through sbin/pefs/pefs_keychain.h.        *)
(*                                                                         *)
(* pefs_ctl.c is modelled from its source.  The bodies of                  *)
(* pefs_keychain_get / pefs_keychain_set / pefs_keychain_del live in       *)
(* pefs_keychain.c, which is not among the sources; they are modelled      *)
(* from sections 3, 4.2, 4.3 and 4.4 of the specification.                 *)
(***************************************************************************)
EXTENDS Integers, Sequences, FiniteSets, TLC

(* ------------------------------ bounds -------------------------------- *)

\* number of distinct passphrase-derived keys the commands are run with
NumKeys == 3
\* number of random identifiers that equal no real key's identifier
NumDecoyIds == 1
\* largest value given to randomchain -N
MaxDecoyBound == 5
\* number of bits of an int in the model of atoi
IntBits == 4

(* --------------------------- program constants ------------------------ *)

PEFS_KEYCHAIN_USE == 1
PEFS_KEYCHAIN_IGNORE_MISSING == 2

\* exit codes and algorithm tags are declared in pefs_ctl.h / fs/pefs/pefs.h;
\* only their names are used
Ok == "0"
PEFS_ERR_INVALID == "PEFS_ERR_INVALID"
PEFS_ERR_USAGE == "PEFS_ERR_USAGE"
PEFS_ERR_IO == "PEFS_ERR_IO"
\* results of the key-chain store calls (section 4.3 and 7 of the
\* specification): callers only test them against zero
ErrNotFound == "chain not found"
ErrInvalidChain == "invalid chain"
ErrCorrupt == "corruption"
ErrExists == "link exists"
\* abnormal termination of the process (see AddChainCheck)
SIGSEGV == "SIGSEGV"

PEFS_ALG_INVALID == "PEFS_ALG_INVALID"
PEFS_ALG_DEFAULT == "PEFS_ALG_DEFAULT"

(* ------------------------------- keys --------------------------------- *)

\* raw secrets of the passphrase-derived keys
Secrets == 1..NumKeys
\* bytes read from /dev/random: a secret equal to no derived secret
RandomSecret == 0

\* the identifier is derived deterministically from the raw secret
KeyId(s) == s

Ids == {KeyId(s) : s \in Secrets}
DecoyOnlyIds == {0 - i : i \in 1..NumDecoyIds}
\* a random 64-bit identifier may or may not hit a real one
RandomIds == Ids \cup DecoyOnlyIds

\* struct pefs_xkey as pefs_key_get() leaves it for passphrase s
XKey(s) == [keyid |-> KeyId(s), alg |-> PEFS_ALG_DEFAULT, key |-> s]

\* struct pefs_xkey filled from /dev/random and tagged PEFS_ALG_INVALID
RandomKey(i) == [keyid |-> i, alg |-> PEFS_ALG_INVALID, key |-> RandomSecret]

\* the child of a seal or decoy link: its random bytes are never read back
\* apart from the algorithm tag, so one representative stands for them
TerminalKey == RandomKey(0 - 1)

RealKeys == {XKey(s) : s \in Secrets}

(* --------------------------- key acquisition -------------------------- *)

\* what a buffer holds: Held(s) when it holds passphrase or raw secret s,
\* Clear when it holds none (it is zero-filled, or was never written)
Held(s) == << s >>
Clear == << >>
\* bzero(buf, sizeof(buf))
Bzero(buf) == Clear

\* readpassphrase(3) returned NULL or an empty string
NoInput == 0

PEFS_ERR_INVALID_ALG == "PEFS_ERR_INVALID_ALG"

\* pefs_readpassphrase leaving its buffers as they are on every path
pefs_readpassphrase_nobzero(verify, typed1, typed2) ==
    LET buf == IF typed1 = NoInput THEN Clear ELSE Held(typed1)
        buf2 == IF verify /\ typed1 # NoInput /\ typed2 # NoInput
                THEN Held(typed2) ELSE Clear
    IN  IF typed1 = NoInput \/ (verify /\ typed2 = NoInput)
           \/ (verify /\ buf # buf2)
        THEN [exit |-> TRUE, res |-> PEFS_ERR_INVALID, passphrase |-> Clear,
              buf |-> buf, buf2 |-> buf2]
        ELSE [exit |-> FALSE, res |-> Ok, passphrase |-> buf,
              buf |-> buf, buf2 |-> buf2]

\* pefs_readpassphrase, lines 146-178.  typed1 and typed2 are what is typed
\* at the first and, with verify, at the second prompt (NoInput: nothing
\* could be read).  exit tells that errx() ended the process; passphrase is
\* the caller's buffer, buf and buf2 the two local ones as they are left.
pefs_readpassphrase(verify, typed1, typed2) ==
    LET buf == IF typed1 = NoInput THEN Clear ELSE Held(typed1)
        buf2 == IF verify /\ typed1 # NoInput /\ typed2 # NoInput
                THEN Held(typed2) ELSE Clear
    IN  IF typed1 = NoInput \/ (verify /\ typed2 = NoInput)
        THEN \* lines 162-166
             [exit |-> TRUE, res |-> PEFS_ERR_INVALID, passphrase |-> Clear,
              buf |-> Bzero(buf), buf2 |-> Bzero(buf2)]
        ELSE IF verify /\ buf # buf2
        THEN \* lines 168-172
             [exit |-> TRUE, res |-> PEFS_ERR_INVALID, passphrase |-> Clear,
              buf |-> Bzero(buf), buf2 |-> Bzero(buf2)]
        ELSE \* lines 173-177
             [exit |-> FALSE, res |-> Ok, passphrase |-> buf,
              buf |-> Bzero(buf), buf2 |-> Bzero(buf2)]

\* struct pefs_keyparam as far as key acquisition reads it: -p given or
\* not, and the secret the key file yields when it is
KeyParams ==
    {[nopassphrase |-> FALSE, keyfile |-> NoInput]}
        \cup {[nopassphrase |-> TRUE, keyfile |-> s] : s \in Secrets}

\* results of pefs_key_generate (not among the sources): 0 or an error
GenerateResults == {Ok, PEFS_ERR_INVALID_ALG, PEFS_ERR_USAGE}

\* pefs_key_get, lines 180-206: read the passphrase unless -p is given,
\* derive the key, clear the passphrase, exit on a derivation error.  gen is
\* the result of pefs_key_generate.  xk is the caller's key structure (a
\* failed derivation is taken to leave no key in it), buf the local
\* passphrase buffer, rbuf and rbuf2 those of pefs_readpassphrase.
pefs_key_get(verify, kp, typed1, typed2, gen) ==
    LET r == pefs_readpassphrase(verify, typed1, typed2)
    IN  IF ~kp.nopassphrase /\ r.exit
        THEN [exit |-> TRUE, res |-> r.res, xk |-> Clear, buf |-> Clear,
              rbuf |-> r.buf, rbuf2 |-> r.buf2]
        ELSE LET buf == IF kp.nopassphrase THEN Clear ELSE r.passphrase
                 rb == IF kp.nopassphrase THEN Clear ELSE r.buf
                 rb2 == IF kp.nopassphrase THEN Clear ELSE r.buf2
                 secret == IF kp.nopassphrase THEN kp.keyfile ELSE typed1
             IN  IF gen # Ok
                 THEN [exit |-> TRUE, res |-> gen, xk |-> Clear,
                       buf |-> Bzero(buf), rbuf |-> rb, rbuf2 |-> rb2]
                 ELSE [exit |-> FALSE, res |-> Ok, xk |-> Held(secret),
                       buf |-> Bzero(buf), rbuf |-> rb, rbuf2 |-> rb2]

(* --------------------------- chain store ------------------------------ *)

\* a chain link: keyed by the parent's identifier, encrypted under the
\* parent's raw secret, holding the child key
Link(xk, xknext) == [id |-> xk.keyid, enc |-> xk.key, next |-> xknext]

Lookup(st, id) == {l \in st : l.id = id}

\* insert that appends the record whether or not the parent is keyed already
keychain_set_append(st, xk, xknext) ==
    [err |-> Ok, st |-> st \cup {Link(xk, xknext)}]

\* pefs_keychain_set: a pre-existing link keyed by the parent's identifier
\* makes the insert fail without mutating the store
keychain_set(st, xk, xknext) ==
    IF Lookup(st, xk.keyid) # {}
    THEN [err |-> ErrExists, st |-> st]
    ELSE [err |-> Ok, st |-> st \cup {Link(xk, xknext)}]

\* pefs_keychain_del: removes the link keyed by the key's identifier; a
\* missing link is an error unless PEFS_KEYCHAIN_IGNORE_MISSING is given
keychain_del(st, flags, xk) ==
    IF Lookup(st, xk.keyid) = {}
    THEN [err |-> IF flags = PEFS_KEYCHAIN_IGNORE_MISSING
                  THEN Ok ELSE ErrNotFound,
          st |-> st]
    ELSE [err |-> Ok, st |-> st \ Lookup(st, xk.keyid)]

ChainIds(chain) == {chain[i].keyid : i \in 1..Len(chain)}

\* one hop of resolution that takes a repeated identifier for the end of
\* the chain
keychain_get_step_loopends(st, flags, chain) ==
    LET tail == chain[Len(chain)]
        found == Lookup(st, tail.keyid)
    IN  IF found = {}
        THEN IF Len(chain) = 1 /\ flags # PEFS_KEYCHAIN_IGNORE_MISSING
             THEN [done |-> TRUE, err |-> ErrNotFound, chain |-> << >>]
             ELSE [done |-> TRUE, err |-> Ok, chain |-> chain]
        ELSE LET l == CHOOSE x \in found : TRUE
             IN  IF l.enc # tail.key
                 THEN [done |-> TRUE, err |-> ErrInvalidChain, chain |-> << >>]
                 ELSE IF l.next.alg = PEFS_ALG_INVALID
                         \/ l.next.keyid \in ChainIds(chain)
                 THEN [done |-> TRUE, err |-> Ok, chain |-> chain]
                 ELSE [done |-> FALSE, err |-> Ok,
                       chain |-> Append(chain, l.next)]

\* one hop of resolution that takes a missing first link for an error in
\* every mode
keychain_get_step_strict(st, flags, chain) ==
    LET tail == chain[Len(chain)]
        found == Lookup(st, tail.keyid)
    IN  IF found = {}
        THEN IF Len(chain) = 1
             THEN [done |-> TRUE, err |-> ErrNotFound, chain |-> << >>]
             ELSE [done |-> TRUE, err |-> Ok, chain |-> chain]
        ELSE LET l == CHOOSE x \in found : TRUE
             IN  IF l.enc # tail.key
                 THEN [done |-> TRUE, err |-> ErrInvalidChain, chain |-> << >>]
                 ELSE IF l.next.alg = PEFS_ALG_INVALID
                 THEN [done |-> TRUE, err |-> Ok, chain |-> chain]
                 ELSE IF l.next.keyid \in ChainIds(chain)
                 THEN [done |-> TRUE, err |-> ErrCorrupt, chain |-> << >>]
                 ELSE [done |-> FALSE, err |-> Ok,
                       chain |-> Append(chain, l.next)]

\* one hop of resolution: look up the link keyed by the tail's identifier,
\* decrypt it with the tail's secret, stop at a terminal marker, abort when
\* an identifier repeats, otherwise append the child
keychain_get_step(st, flags, chain) ==
    LET tail == chain[Len(chain)]
        found == Lookup(st, tail.keyid)
    IN  IF found = {}
        THEN IF Len(chain) = 1 /\ flags # PEFS_KEYCHAIN_IGNORE_MISSING
             THEN [done |-> TRUE, err |-> ErrNotFound, chain |-> << >>]
             ELSE [done |-> TRUE, err |-> Ok, chain |-> chain]
        ELSE LET l == CHOOSE x \in found : TRUE
             IN  IF l.enc # tail.key
                 THEN [done |-> TRUE, err |-> ErrInvalidChain, chain |-> << >>]
                 ELSE IF l.next.alg = PEFS_ALG_INVALID
                 THEN [done |-> TRUE, err |-> Ok, chain |-> chain]
                 ELSE IF l.next.keyid \in ChainIds(chain)
                 THEN [done |-> TRUE, err |-> ErrCorrupt, chain |-> << >>]
                 ELSE [done |-> FALSE, err |-> Ok,
                       chain |-> Append(chain, l.next)]

RECURSIVE keychain_get_loop(_, _, _)
keychain_get_loop(st, flags, chain) ==
    LET r == keychain_get_step(st, flags, chain)
    IN  IF r.done THEN [err |-> r.err, chain |-> r.chain]
        ELSE keychain_get_loop(st, flags, r.chain)

\* pefs_keychain_get: the chain resolved from xk, or an error and no chain
keychain_get(st, flags, xk) == keychain_get_loop(st, flags, << xk >>)

(* ------------------------------ addchain ------------------------------ *)

\* the check of the chained key that passes over the head of the chain
AddChainCheck_tail(g, k2) ==
    IF g.err # Ok THEN {SIGSEGV, PEFS_ERR_INVALID}
    ELSE IF k2.keyid \in ChainIds(SubSeq(g.chain, 2, Len(g.chain)))
    THEN {PEFS_ERR_INVALID}
    ELSE IF Len(g.chain) > 1 THEN {PEFS_ERR_INVALID}
    ELSE {"set"}

\* pefs_addchain, lines 750-773: what the command does with the chain that
\* pefs_keychain_get left in kch.  The call's result is not tested: after a
\* failed resolution kch holds no usable list, and walking it either ends
\* the process abnormally or ends in one of the two "already set" exits.
AddChainCheck(g, k2) ==
    IF g.err # Ok THEN {SIGSEGV, PEFS_ERR_INVALID}
    ELSE IF k2.keyid \in ChainIds(g.chain) THEN {PEFS_ERR_INVALID}
    ELSE IF Len(g.chain) > 1 THEN {PEFS_ERR_INVALID}
    ELSE {"set"}

\* lines 775-788 (and 735-741 for -Z): insert the link, report the result
AddChainSet(st, k1, k2) ==
    LET r == keychain_set(st, k1, k2)
    IN  [res |-> IF r.err # Ok THEN PEFS_ERR_INVALID ELSE Ok, st |-> r.st]

\* pefs_addchain with the conflict exits reporting success
pefs_addchain_exit0(st, env, zero, k1, k2) ==
    IF env = "nofs" THEN {[res |-> PEFS_ERR_INVALID, st |-> st]}
    ELSE IF zero
    THEN IF env = "nodev" THEN {[res |-> PEFS_ERR_IO, st |-> st]}
         ELSE {AddChainSet(st, k1, TerminalKey)}
    ELSE {IF c = "set" THEN AddChainSet(st, k1, k2)
          ELSE [res |-> IF c = SIGSEGV THEN c ELSE Ok, st |-> st] :
             c \in AddChainCheck(keychain_get(st,
                        PEFS_KEYCHAIN_IGNORE_MISSING, k1), k2)}

\* pefs_addchain -Z dropping the result of pefs_keychain_set
pefs_addchain_sealunchecked(st, env, zero, k1, k2) ==
    IF env = "nofs" THEN {[res |-> PEFS_ERR_INVALID, st |-> st]}
    ELSE IF zero
    THEN IF env = "nodev" THEN {[res |-> PEFS_ERR_IO, st |-> st]}
         ELSE {[res |-> Ok, st |-> keychain_set(st, k1, TerminalKey).st]}
    ELSE {IF c = "set" THEN AddChainSet(st, k1, k2)
          ELSE [res |-> c, st |-> st] :
             c \in AddChainCheck(keychain_get(st,
                        PEFS_KEYCHAIN_IGNORE_MISSING, k1), k2)}

\* pefs_addchain -Z leaving the algorithm of the random child as it is
pefs_addchain_sealuntagged(st, env, zero, k1, k2) ==
    IF env = "nofs" THEN {[res |-> PEFS_ERR_INVALID, st |-> st]}
    ELSE IF zero
    THEN IF env = "nodev" THEN {[res |-> PEFS_ERR_IO, st |-> st]}
         ELSE {AddChainSet(st, k1,
                    [TerminalKey EXCEPT !.alg = PEFS_ALG_DEFAULT])}
    ELSE {IF c = "set" THEN AddChainSet(st, k1, k2)
          ELSE [res |-> c, st |-> st] :
             c \in AddChainCheck(keychain_get(st,
                        PEFS_KEYCHAIN_IGNORE_MISSING, k1), k2)}

\* pefs_addchain inserting the link child -> parent
pefs_addchain_swapped(st, env, zero, k1, k2) ==
    IF env = "nofs" THEN {[res |-> PEFS_ERR_INVALID, st |-> st]}
    ELSE IF zero
    THEN IF env = "nodev" THEN {[res |-> PEFS_ERR_IO, st |-> st]}
         ELSE {AddChainSet(st, k1, TerminalKey)}
    ELSE {IF c = "set" THEN AddChainSet(st, k2, k1)
          ELSE [res |-> c, st |-> st] :
             c \in AddChainCheck(keychain_get(st,
                        PEFS_KEYCHAIN_IGNORE_MISSING, k1), k2)}

\* pefs_addchain: the outcomes (exit status, store) of
\*   pefs addchain [-Z] filesystem
\* run with parent key k1 and chained key k2.  env is what the environment
\* lets fail: "nofs" (pefs_getfsroot fails), "nodev" (/dev/random cannot be
\* opened), "ok".
pefs_addchain(st, env, zero, k1, k2) ==
    IF env = "nofs" THEN {[res |-> PEFS_ERR_INVALID, st |-> st]}
    ELSE IF zero
    THEN IF env = "nodev" THEN {[res |-> PEFS_ERR_IO, st |-> st]}
         ELSE {AddChainSet(st, k1, TerminalKey)}
    ELSE {IF c = "set" THEN AddChainSet(st, k1, k2)
          ELSE [res |-> c, st |-> st] :
             c \in AddChainCheck(keychain_get(st,
                        PEFS_KEYCHAIN_IGNORE_MISSING, k1), k2)}

(* ------------------------------ delchain ------------------------------ *)

\* the deletion loop stopping after the first link whatever -F says
RECURSIVE DelChainLoop_first(_, _, _, _)
DelChainLoop_first(st, chain, i, deleteall) ==
    IF i > Len(chain) THEN [st |-> st, err |-> Ok]
    ELSE LET d == keychain_del(st,
                    IF i = Len(chain) THEN PEFS_KEYCHAIN_IGNORE_MISSING ELSE 0,
                    chain[i])
         IN  [st |-> d.st, err |-> d.err]

\* the deletion loop never stopping after the first link
RECURSIVE DelChainLoop_all(_, _, _, _)
DelChainLoop_all(st, chain, i, deleteall) ==
    IF i > Len(chain) THEN [st |-> st, err |-> Ok]
    ELSE LET d == keychain_del(st,
                    IF i = Len(chain) THEN PEFS_KEYCHAIN_IGNORE_MISSING ELSE 0,
                    chain[i])
         IN  IF d.err # Ok THEN [st |-> d.st, err |-> d.err]
             ELSE DelChainLoop_all(d.st, chain, i + 1, deleteall)

\* the body of the loop going on to the next element after a failed removal
DelChainIter_goeson(st, chain, i, deleteall) ==
    LET d == keychain_del(st,
                IF i = Len(chain) THEN PEFS_KEYCHAIN_IGNORE_MISSING ELSE 0,
                chain[i])
    IN  [st |-> d.st, err |-> d.err,
         cont |-> deleteall /\ i < Len(chain)]

\* pefs_delchain, lines 852-869: the body of the loop for element i of
\* the resolved chain; cont tells whether the loop goes on to element i + 1
DelChainIter(st, chain, i, deleteall) ==
    LET d == keychain_del(st,
                IF i = Len(chain) THEN PEFS_KEYCHAIN_IGNORE_MISSING ELSE 0,
                chain[i])
    IN  [st |-> d.st, err |-> d.err,
         cont |-> d.err = Ok /\ deleteall /\ i < Len(chain)]

\* pefs_delchain, lines 851-870: TAILQ_FOREACH over the resolved chain from
\* element i on; the store afterwards and the last pefs_keychain_del result
RECURSIVE DelChainLoop(_, _, _, _)
DelChainLoop(st, chain, i, deleteall) ==
    IF i > Len(chain) THEN [st |-> st, err |-> Ok]
    ELSE LET d == DelChainIter(st, chain, i, deleteall)
         IN  IF d.cont THEN DelChainLoop(d.st, chain, i + 1, deleteall)
             ELSE [st |-> d.st, err |-> d.err]

\* pefs_delchain: exit status and store of  pefs delchain [-F] filesystem,
\* and the length of the chain it resolved
pefs_delchain(st, env, deleteall, k) ==
    IF env = "nofs" THEN [res |-> PEFS_ERR_INVALID, st |-> st, len |-> 0]
    ELSE LET g == keychain_get(st, PEFS_KEYCHAIN_USE, k)
         IN  IF g.err # Ok
             THEN [res |-> PEFS_ERR_INVALID, st |-> st, len |-> 0]
             ELSE [res |-> Ok, len |-> Len(g.chain),
                   st |-> DelChainLoop(st, g.chain, 1, deleteall).st]

(* ----------------------------- randomchain ---------------------------- *)

\* the number of links without the halving of line 992
RandomCount_nohalf(d) == d

\* lines 991-992: n = arc4random_uniform(nmax - nmin) + nmin; n /= 2;
\* d is arc4random_uniform(nmax - nmin) + nmin
RandomCount(d) == d \div 2

\* the values n has before it is halved, over the bounds -n nmin -N nmax
\* that pass the checks of lines 959-982 (both positive, nmin < nmax)
RandomDraws ==
    {t[3] + t[1] : t \in
        {u \in (1..MaxDecoyBound) \X (1..MaxDecoyBound) \X (0..MaxDecoyBound) :
            u[1] < u[2] /\ u[3] < u[2] - u[1]}}

\* the loop keying every decoy link by the loop counter
RECURSIVE RandomChainLoop_counter(_, _, _)
RandomChainLoop_counter(st, ids, i) ==
    IF i > Len(ids) THEN st
    ELSE RandomChainLoop_counter(
            keychain_set(st, RandomKey(i), TerminalKey).st, ids, i + 1)

\* lines 998-1008: for (i = 1; i <= n; i++) insert a link between two
\* random keys tagged PEFS_ALG_INVALID; the result of the insert is dropped.
\* ids[i] is the identifier /dev/random gave the i-th parent.
RECURSIVE RandomChainLoop(_, _, _)
RandomChainLoop(st, ids, i) ==
    IF i > Len(ids) THEN st
    ELSE RandomChainLoop(
            keychain_set(st, RandomKey(ids[i]), TerminalKey).st, ids, i + 1)

\* some random parent identifier is keyed in the store already, or was
\* drawn twice
RandomDup(st, ids) ==
    \/ \E i \in 1..Len(ids) : Lookup(st, ids[i]) # {}
    \/ \E i, j \in 1..Len(ids) : i < j /\ ids[i] = ids[j]

\* pefs_randomchain after option parsing: exit status and store
pefs_randomchain(st, env, ids) ==
    IF env = "nofs" THEN [res |-> PEFS_ERR_INVALID, st |-> st]
    ELSE IF env = "nodev" THEN [res |-> PEFS_ERR_IO, st |-> st]
    ELSE [res |-> Ok, st |-> RandomChainLoop(st, ids, 1)]

(* ----------------------------- showchains ----------------------------- *)

\* pefs_showchains: exit status and the chain printed
pefs_showchains(st, env, k) ==
    IF env = "nofs" THEN [res |-> PEFS_ERR_INVALID, out |-> << >>]
    ELSE LET g == keychain_get(st, PEFS_KEYCHAIN_USE, k)
         IN  IF g.err # Ok THEN [res |-> PEFS_ERR_INVALID, out |-> << >>]
             ELSE [res |-> Ok, out |-> g.chain]

(* --------------------------- addkey, delkey --------------------------- *)

\* pefs_addkey_op returns -1 when a keyring request fails; main returns it
ErrKeyop == "-1"

\* a request to the keyring and its outcome
Call(xk, ok) == [id |-> xk.keyid, ok |-> ok]

\* the install loop going on to the next key after a failed request
RECURSIVE pefs_addkey_op_goeson(_, _, _, _)
pefs_addkey_op_goeson(rng, chain, bad, i) ==
    IF i > Len(chain) THEN [res |-> Ok, ring |-> rng, calls |-> << >>]
    ELSE LET ok == chain[i].keyid \notin bad
             r == pefs_addkey_op_goeson(
                    IF ok THEN rng \cup {chain[i].keyid} ELSE rng,
                    chain, bad, i + 1)
         IN  [res |-> IF ok THEN r.res ELSE ErrKeyop, ring |-> r.ring,
              calls |-> << Call(chain[i], ok) >> \o r.calls]

\* pefs_addkey_op, lines 307-317: ioctl(PEFS_ADDKEY) for the keys of the
\* chain from element i on, in list order; the first request that fails ends
\* the loop with -1.  The keyring is in the kernel: bad is the set of key
\* identifiers whose request it refuses during this run.
RECURSIVE pefs_addkey_op(_, _, _, _)
pefs_addkey_op(rng, chain, bad, i) ==
    IF i > Len(chain) THEN [res |-> Ok, ring |-> rng, calls |-> << >>]
    ELSE IF chain[i].keyid \in bad
    THEN [res |-> ErrKeyop, ring |-> rng,
          calls |-> << Call(chain[i], FALSE) >>]
    ELSE LET r == pefs_addkey_op(rng \cup {chain[i].keyid}, chain, bad, i + 1)
         IN  [r EXCEPT !.calls = << Call(chain[i], TRUE) >> \o @]

\* the removal loop ending at the first request that fails
RECURSIVE pefs_delkey_op_stops(_, _, _, _)
pefs_delkey_op_stops(rng, chain, bad, i) ==
    IF i > Len(chain) THEN [res |-> Ok, ring |-> rng, calls |-> << >>]
    ELSE IF chain[i].keyid \in bad
    THEN [res |-> Ok, ring |-> rng, calls |-> << Call(chain[i], FALSE) >>]
    ELSE LET r == pefs_delkey_op_stops(rng \ {chain[i].keyid}, chain, bad,
                                       i + 1)
         IN  [r EXCEPT !.calls = << Call(chain[i], TRUE) >> \o @]

\* pefs_delkey_op, lines 325-334: ioctl(PEFS_DELKEY) for every key of the
\* chain; a failed request is warned about and the loop goes on; returns 0
RECURSIVE pefs_delkey_op(_, _, _, _)
pefs_delkey_op(rng, chain, bad, i) ==
    IF i > Len(chain) THEN [res |-> Ok, ring |-> rng, calls |-> << >>]
    ELSE LET ok == chain[i].keyid \notin bad
             r == pefs_delkey_op(
                    IF ok THEN rng \ {chain[i].keyid} ELSE rng,
                    chain, bad, i + 1)
         IN  [r EXCEPT !.calls = << Call(chain[i], ok) >> \o @]

\* pefs_keyop, lines 278-299, for func = "addkey" or "delkey": exit status,
\* keyring afterwards and the requests made.  env: "nofs" (pefs_getfsroot
\* fails), "noopen" (the filesystem root cannot be opened), "ok".
pefs_keyop(func, st, rng, env, flags, k, bad) ==
    IF env = "nofs"
    THEN [res |-> PEFS_ERR_INVALID, ring |-> rng, calls |-> << >>]
    ELSE LET g == keychain_get(st, flags, k)
         IN  IF g.err # Ok
             THEN [res |-> PEFS_ERR_INVALID, ring |-> rng, calls |-> << >>]
             ELSE IF env = "noopen"
             THEN [res |-> PEFS_ERR_IO, ring |-> rng, calls |-> << >>]
             ELSE IF func = "addkey"
             THEN pefs_addkey_op(rng, g.chain, bad, 1)
             ELSE pefs_delkey_op(rng, g.chain, bad, 1)

(* ------------------------- command line options ----------------------- *)

IntMin == 0 - 2^(IntBits - 1)
IntMax == 2^(IntBits - 1) - 1

\* conversion of a long to int
WrapInt(v) == ((v - IntMin) % 2^IntBits) + IntMin

\* atoi(optarg), optarg being the decimal text of v (text without digits
\* counts as 0): v when an int can hold it; otherwise the behaviour is
\* undefined, and the result is strtol's long converted to int (LP64) or
\* strtol's clamped value (ILP32)
Atoi(v) ==
    IF IntMin <= v /\ v <= IntMax THEN {v}
    ELSE {WrapInt(v), IF v < 0 THEN IntMin ELSE IntMax}

\* an option argument that is absent, or given as the text of v
NoArg == << >>
Arg(v) == << v >>

\* the values given to -i, -I, -n and -N: out of int's range below, negative,
\* zero, and small positive ones
OptValues == {0 - 2^IntBits + 1, 0 - 1, 0, 1, 2, 3}

\* the options of one invocation, as far as the commands tell them apart:
\* -i and -I, -Z, another chained-key option (-A, -K or -P), the number of
\* arguments left after the options, -F, the chain mode (-c), -x, -n and -N
PlainArgs ==
    [iter |-> NoArg, iterc |-> NoArg, zero |-> FALSE, chained |-> FALSE,
     argc |-> 1, all |-> FALSE, flags |-> PEFS_KEYCHAIN_IGNORE_MISSING,
     x |-> FALSE, nmin |-> NoArg, nmax |-> NoArg]

\* what an invocation asks for that the commands are to refuse
Req(a) ==
    [nonpos |-> \/ (a.iter # NoArg /\ a.iter[1] <= 0)
                \/ (a.iterc # NoArg /\ a.iterc[1] <= 0),
     zconflict |-> a.zero /\ (a.chained \/ a.iterc # NoArg),
     xconflict |-> a.x /\ a.flags = PEFS_KEYCHAIN_USE,
     argc |-> a.argc,
     nonposbound |-> \/ (a.nmin # NoArg /\ a.nmin[1] <= 0)
                     \/ (a.nmax # NoArg /\ a.nmax[1] <= 0),
     badorder |-> a.nmin # NoArg /\ a.nmax # NoArg /\ a.nmin[1] >= a.nmax[1]]

\* case 'i' of the option loops (lines 254-261, 382-389, 687-697, 817-824,
\* 896-903): whether the loop goes on after the option, for each value atoi
\* can return
IterationsOk(arg) ==
    IF arg = NoArg THEN {TRUE} ELSE {n > 0 : n \in Atoi(arg[1])}

\* whether the option loop gets past -i and -I
IterationsFront(a) ==
    {ok1 /\ ok2 : ok1 \in IterationsOk(a.iter), ok2 \in IterationsOk(a.iterc)}

\* what a command did on its way: whether it derived a key, called the
\* key-chain store, called the keyring, what pefs_keychain_get returned to it
\* (nothing when it was not called), and what its key structures hold when
\* it ends
NoFx == [derived |-> FALSE, store |-> FALSE, keyring |-> FALSE,
         get |-> << >>, k1 |-> Clear, k2 |-> Clear]

\* pefs_usage(), errx(PEFS_ERR_USAGE, ...): the process ends at once
UsageExit(st, rng) ==
    [res |-> PEFS_ERR_USAGE, st |-> st, ring |-> rng, calls |-> << >>,
     out |-> << >>, fx |-> NoFx]

\* a return or exit with status res after the effects fx
Ends(res, st, rng, fx) ==
    [res |-> res, st |-> st, ring |-> rng, calls |-> << >>, out |-> << >>,
     fx |-> fx]

(* --------------------- the commands, from argv to exit ---------------- *)

PEFS_ERR_SYS == "PEFS_ERR_SYS"

\* key parameters of a key asked for by passphrase
PassphraseKp == [nopassphrase |-> FALSE, keyfile |-> NoInput]

\* pefs_addchain after the option loop, lines 710-788, with the effects on
\* the way.  typed1 and typed2 are the passphrases typed (twice each) for
\* the parent and the chained key, NoInput when none can be read.
AddChainBody(st, rng, a, env, typed1, typed2) ==
    IF a.zero /\ (a.chained \/ a.iterc # NoArg) THEN {UsageExit(st, rng)}
    ELSE IF a.argc # 1 THEN {UsageExit(st, rng)}
    ELSE IF env = "nofs" THEN {Ends(PEFS_ERR_INVALID, st, rng, NoFx)}
    ELSE
    LET g1 == pefs_key_get(TRUE, PassphraseKp, typed1, typed1, Ok)
        f1 == [NoFx EXCEPT !.derived = TRUE, !.k1 = g1.xk]
        k1 == XKey(typed1)
    IN  IF g1.exit THEN {Ends(g1.res, st, rng, NoFx)}
        ELSE IF a.zero
        THEN IF env = "nodev" THEN {Ends(PEFS_ERR_IO, st, rng, f1)}
             ELSE LET r == AddChainSet(st, k1, TerminalKey)
                  IN  {Ends(r.res, r.st, rng, [f1 EXCEPT !.store = TRUE])}
        ELSE
        LET g2 == pefs_key_get(TRUE, PassphraseKp, typed2, typed2, Ok)
            g == keychain_get(st, PEFS_KEYCHAIN_IGNORE_MISSING, k1)
            f2 == [f1 EXCEPT !.k2 = g2.xk, !.store = TRUE,
                             !.get = << g.err >>]
            k2 == XKey(typed2)
        IN  IF g2.exit THEN {Ends(g2.res, st, rng, f1)}
            ELSE {IF c = "set"
                  THEN LET r == AddChainSet(st, k1, k2)
                       IN  Ends(r.res, r.st, rng, f2)
                  ELSE IF c = SIGSEGV THEN Ends(c, st, rng, f2)
                  ELSE \* lines 755-756, 765-766
                       Ends(c, st, rng, [f2 EXCEPT !.k1 = Bzero(@),
                                                   !.k2 = Bzero(@)]) :
                    c \in AddChainCheck(g, k2)}

\* pefs_addchain from its arguments on
pefs_addchain_run(st, rng, a, env, typed1, typed2) ==
    UNION {IF ok THEN AddChainBody(st, rng, a, env, typed1, typed2)
           ELSE {UsageExit(st, rng)} : ok \in IterationsFront(a)}

\* pefs_delchain after the option loop, lines 834-873
DelChainBody(st, rng, a, env, typed) ==
    IF a.argc # 1 THEN {UsageExit(st, rng)}
    ELSE IF env = "nofs" THEN {Ends(PEFS_ERR_INVALID, st, rng, NoFx)}
    ELSE
    LET g1 == pefs_key_get(FALSE, PassphraseKp, typed, typed, Ok)
        g == keychain_get(st, PEFS_KEYCHAIN_USE, XKey(typed))
        f1 == [NoFx EXCEPT !.derived = TRUE, !.k1 = g1.xk, !.store = TRUE,
                           !.get = << g.err >>]
    IN  IF g1.exit THEN {Ends(g1.res, st, rng, NoFx)}
        ELSE IF g.err # Ok
        THEN {Ends(PEFS_ERR_INVALID, st, rng, [f1 EXCEPT !.k1 = Bzero(@)])}
        ELSE {Ends(Ok, DelChainLoop(st, g.chain, 1, a.all).st, rng, f1)}

\* pefs_delchain from its arguments on
pefs_delchain_run(st, rng, a, env, typed) ==
    UNION {IF ok THEN DelChainBody(st, rng, a, env, typed)
           ELSE {UsageExit(st, rng)} : ok \in IterationsFront(a)}

\* pefs_showchains after the option loop, lines 913-937
ShowChainsBody(st, rng, a, env, typed) ==
    IF a.argc # 1 THEN {UsageExit(st, rng)}
    ELSE IF env = "nofs" THEN {Ends(PEFS_ERR_INVALID, st, rng, NoFx)}
    ELSE
    LET g1 == pefs_key_get(FALSE, PassphraseKp, typed, typed, Ok)
        g == keychain_get(st, PEFS_KEYCHAIN_USE, XKey(typed))
        f1 == [NoFx EXCEPT !.derived = TRUE, !.k1 = Bzero(g1.xk),
                           !.store = TRUE, !.get = << g.err >>]
    IN  IF g1.exit THEN {Ends(g1.res, st, rng, NoFx)}
        ELSE IF g.err # Ok THEN {Ends(PEFS_ERR_INVALID, st, rng, f1)}
        ELSE {[Ends(Ok, st, rng, f1) EXCEPT !.out = g.chain]}

\* pefs_showchains from its arguments on
pefs_showchains_run(st, rng, a, env, typed) ==
    UNION {IF ok THEN ShowChainsBody(st, rng, a, env, typed)
           ELSE {UsageExit(st, rng)} : ok \in IterationsFront(a)}

\* pefs_keyop going on with the typed key alone when the chain does not
\* resolve
KeyopBody_unchecked(func, st, rng, a, env, typed, bad) ==
    IF a.argc # 1 THEN {UsageExit(st, rng)}
    ELSE IF env = "nofs" THEN {Ends(PEFS_ERR_INVALID, st, rng, NoFx)}
    ELSE
    LET g1 == pefs_key_get(FALSE, PassphraseKp, typed, typed, Ok)
        \* line 286: bzero(&k, sizeof(k))
        g == keychain_get(st, a.flags, XKey(typed))
        f1 == [NoFx EXCEPT !.derived = TRUE, !.k1 = Bzero(g1.xk),
                           !.store = TRUE, !.get = << g.err >>]
    IN  IF g1.exit THEN {Ends(g1.res, st, rng, NoFx)}
        ELSE IF env = "noopen" THEN {Ends(PEFS_ERR_IO, st, rng, f1)}
        ELSE LET chain == IF g.err # Ok THEN << XKey(typed) >> ELSE g.chain
                 o == IF func = "addkey"
                      THEN pefs_addkey_op(rng, chain, bad, 1)
                      ELSE pefs_delkey_op(rng, chain, bad, 1)
             IN  {[Ends(o.res, st, o.ring, [f1 EXCEPT !.keyring = TRUE])
                     EXCEPT !.calls = o.calls]}

\* pefs_keyop after the option loop, lines 274-299
KeyopBody(func, st, rng, a, env, typed, bad) ==
    IF a.argc # 1 THEN {UsageExit(st, rng)}
    ELSE IF env = "nofs" THEN {Ends(PEFS_ERR_INVALID, st, rng, NoFx)}
    ELSE
    LET g1 == pefs_key_get(FALSE, PassphraseKp, typed, typed, Ok)
        \* line 286: bzero(&k, sizeof(k))
        g == keychain_get(st, a.flags, XKey(typed))
        f1 == [NoFx EXCEPT !.derived = TRUE, !.k1 = Bzero(g1.xk),
                           !.store = TRUE, !.get = << g.err >>]
    IN  IF g1.exit THEN {Ends(g1.res, st, rng, NoFx)}
        ELSE IF g.err # Ok THEN {Ends(PEFS_ERR_INVALID, st, rng, f1)}
        ELSE IF env = "noopen" THEN {Ends(PEFS_ERR_IO, st, rng, f1)}
        ELSE LET o == IF func = "addkey"
                      THEN pefs_addkey_op(rng, g.chain, bad, 1)
                      ELSE pefs_delkey_op(rng, g.chain, bad, 1)
             IN  {[Ends(o.res, st, o.ring, [f1 EXCEPT !.keyring = TRUE])
                     EXCEPT !.calls = o.calls]}

\* pefs_addkey / pefs_delkey from their arguments on
pefs_keyop_run(func, st, rng, a, env, typed, bad) ==
    UNION {IF ok THEN KeyopBody(func, st, rng, a, env, typed, bad)
           ELSE {UsageExit(st, rng)} : ok \in IterationsFront(a)}

\* pefs_setkey after the option loop, lines 399-439; setok tells whether
\* ioctl(PEFS_SETKEY) succeeds
SetKeyBody(st, rng, a, env, typed, setok) ==
    IF a.flags = PEFS_KEYCHAIN_USE /\ a.x THEN {UsageExit(st, rng)}
    ELSE IF a.argc # 1 THEN {UsageExit(st, rng)}
    ELSE IF env = "nofs" THEN {Ends(PEFS_ERR_INVALID, st, rng, NoFx)}
    ELSE
    LET g1 == pefs_key_get(FALSE, PassphraseKp, typed, typed, Ok)
        \* line 419: bzero(k.pxk_key, PEFS_KEY_SIZE)
        g == keychain_get(st, a.flags, XKey(typed))
        f1 == [NoFx EXCEPT !.derived = TRUE, !.k1 = Bzero(g1.xk),
                           !.store = TRUE, !.get = << g.err >>]
    IN  IF g1.exit THEN {Ends(g1.res, st, rng, NoFx)}
        ELSE IF g.err # Ok THEN {Ends(PEFS_ERR_INVALID, st, rng, f1)}
        ELSE IF env = "noopen" THEN {Ends(PEFS_ERR_IO, st, rng, f1)}
        ELSE {Ends(IF setok THEN Ok ELSE PEFS_ERR_SYS, st, rng,
                   [f1 EXCEPT !.keyring = TRUE])}

\* pefs_setkey from its arguments on
pefs_setkey_run(st, rng, a, env, typed, setok) ==
    UNION {IF ok THEN SetKeyBody(st, rng, a, env, typed, setok)
           ELSE {UsageExit(st, rng)} : ok \in IterationsFront(a)}

\* pefs_randomchain after its options are converted, lines 958-1012, for
\* -n and -N converted to nmin and nmax: every outcome over what
\* arc4random_uniform and /dev/random give
RandomChainBody(st, rng, a, env, nmin, nmax) ==
    IF nmin <= 0 \/ nmax <= 0 THEN {UsageExit(st, rng)}
    ELSE IF nmin >= nmax THEN {UsageExit(st, rng)}
    ELSE IF a.argc # 1 THEN {UsageExit(st, rng)}
    ELSE IF env = "nofs" THEN {Ends(PEFS_ERR_INVALID, st, rng, NoFx)}
    ELSE IF env = "nodev" THEN {Ends(PEFS_ERR_IO, st, rng, NoFx)}
    ELSE UNION {
            {Ends(Ok, RandomChainLoop(st, ids, 1), rng,
                  [NoFx EXCEPT !.store = Len(ids) > 0]) :
                ids \in [1..RandomCount(d) -> RandomIds]} :
            d \in nmin..(nmax - 1)}

\* pefs_randomchain from its arguments on, -n and -N both given
pefs_randomchain_run(st, rng, a, env) ==
    UNION {RandomChainBody(st, rng, a, env, nmin, nmax) :
            nmin \in Atoi(a.nmin[1]), nmax \in Atoi(a.nmax[1])}

(* ---------------------------- state machine --------------------------- *)

VARIABLES
    store,   \* the key-chain database of the filesystem: a set of links
    last,    \* the command that ran last, its arguments and exit status
    rpc,     \* a resolution in progress: "idle", "run" or "done"
    rkey,    \*   the key it started from
    rflags,  \*   its flags
    kch,     \*   the chain built so far
    rerr,    \*   its result
    pc,      \* position of each of two concurrent invocations
    inv,     \* their arguments, resolved chain and exit status
    ring     \* the keyring of the mounted filesystem: identifiers of its keys

vars == << store, last, rpc, rkey, rflags, kch, rerr, pc, inv, ring >>
rvars == << rpc, rkey, rflags, kch, rerr >>
cvars == << pc, inv >>

Procs == {"p1", "p2"}

\* out is the chain a command printed, calls the keyring requests it made,
\* fx what it did on the way (kept by the actions that trace it)
NoCmd == [op |-> "none", k |-> 0, c |-> 0, zero |-> FALSE, all |-> FALSE,
          res |-> Ok, len |-> 0, n |-> 0, coll |-> FALSE, dup |-> FALSE,
          flags |-> 0, out |-> << >>, calls |-> << >>, fx |-> << >>]

\* the locals of an invocation: command, keys, -F, the chain it resolved,
\* the position of the deletion loop in it, the exit status
NoInv == [op |-> "none", k |-> 0, c |-> 0, all |-> FALSE,
          chain |-> << >>, i |-> 0, res |-> Ok]

Init ==
    /\ store = {}
    /\ last = NoCmd
    /\ rpc = "idle"
    /\ rkey = 0
    /\ rflags = 0
    /\ kch = << >>
    /\ rerr = Ok
    /\ pc = [p \in Procs |-> "idle"]
    /\ inv = [p \in Procs |-> NoInv]
    /\ ring = {}

\* what a specification keeps of a command in last: all of it, or only the
\* fields that do not name a key
FullLog(c) == c
BriefLog(c) ==
    [NoCmd EXCEPT !.op = c.op, !.n = c.n, !.coll = c.coll, !.dup = c.dup]
Log(brief, c) == IF brief THEN BriefLog(c) ELSE FullLog(c)

\* pefs addchain filesystem, parent passphrase s1, chained passphrase s2
AddChainCmd(brief) ==
    \E s1 \in Secrets, s2 \in Secrets :
    \E o \in pefs_addchain(store, "ok", FALSE, XKey(s1), XKey(s2)) :
        /\ store' = o.st
        /\ last' = Log(brief, [NoCmd EXCEPT !.op = "addchain", !.k = s1, !.c = s2,
                                     !.res = o.res])
        /\ UNCHANGED << rvars, cvars, ring >>

\* pefs addchain -Z filesystem, parent passphrase s1
SealChainCmd(brief) ==
    \E s1 \in Secrets, env \in {"ok", "nodev"} :
    \E o \in pefs_addchain(store, env, TRUE, XKey(s1), TerminalKey) :
        /\ store' = o.st
        /\ last' = Log(brief, [NoCmd EXCEPT !.op = "addchain", !.k = s1,
                                     !.zero = TRUE, !.res = o.res])
        /\ UNCHANGED << rvars, cvars, ring >>

\* pefs delchain [-F] filesystem, passphrase s
DelChainCmd(brief) ==
    \E s \in Secrets, deleteall \in BOOLEAN :
    LET o == pefs_delchain(store, "ok", deleteall, XKey(s))
    IN  /\ store' = o.st
        /\ last' = Log(brief, [NoCmd EXCEPT !.op = "delchain", !.k = s,
                                     !.all = deleteall, !.len = o.len,
                                     !.res = o.res])
        /\ UNCHANGED << rvars, cvars, ring >>

\* pefs randomchain -n nmin -N nmax filesystem; d is the number drawn and
\* ids the identifiers of the random parent keys
RandomChainCmd(brief) ==
    \E d \in RandomDraws :
    \E ids \in [1..RandomCount(d) -> RandomIds] :
    LET o == pefs_randomchain(store, "ok", ids)
    IN  /\ store' = o.st
        /\ last' = Log(brief, [NoCmd EXCEPT !.op = "randomchain", !.n = d,
                        !.coll = (\E i \in 1..Len(ids) : ids[i] \in Ids),
                        !.dup = RandomDup(store, ids),
                        !.res = o.res])
        /\ UNCHANGED << rvars, cvars, ring >>

\* pefs showchains filesystem, passphrase s
ShowChainsCmd(brief) ==
    \E s \in Secrets :
    LET o == pefs_showchains(store, "ok", XKey(s))
    IN  /\ store' = store
        /\ last' = Log(brief, [NoCmd EXCEPT !.op = "showchains", !.k = s,
                                     !.out = o.out, !.res = o.res])
        /\ UNCHANGED << rvars, cvars, ring >>

\* addchain, delchain or showchains on a path that is not a pefs
\* filesystem: the command returns before a passphrase is read
NoFsChain ==
    /\ \/ \E zero \in BOOLEAN :
          \E o \in pefs_addchain(store, "nofs", zero, XKey(1), XKey(1)) :
             /\ store' = o.st
             /\ last' = [NoCmd EXCEPT !.op = "addchain", !.zero = zero,
                                      !.res = o.res]
       \/ LET o == pefs_delchain(store, "nofs", FALSE, XKey(1))
          IN  /\ store' = o.st
              /\ last' = [NoCmd EXCEPT !.op = "delchain", !.res = o.res]
       \/ LET o == pefs_showchains(store, "nofs", XKey(1))
          IN  /\ store' = store
              /\ last' = [NoCmd EXCEPT !.op = "showchains", !.res = o.res]
    /\ UNCHANGED << rvars, cvars, ring >>

\* randomchain on a path that is not a pefs filesystem, or without
\* /dev/random
NoRandomChain ==
    /\ \E env \in {"nofs", "nodev"} :
          LET o == pefs_randomchain(store, env, << >>)
          IN  /\ store' = o.st
              /\ last' = [NoCmd EXCEPT !.op = "randomchain", !.res = o.res]
    /\ UNCHANGED << rvars, cvars, ring >>

AddChain == AddChainCmd(FALSE)
SealChain == SealChainCmd(FALSE)
DelChain == DelChainCmd(FALSE)
RandomChain == RandomChainCmd(FALSE)
ShowChains == ShowChainsCmd(FALSE)

\* every command, one after the other
Next ==
    \/ AddChain
    \/ SealChain
    \/ DelChain
    \/ RandomChain
    \/ ShowChains
    \/ NoFsChain
    \/ NoRandomChain

Spec == Init /\ [][Next]_vars

\* the commands on real chains, without decoys
NextChain == AddChain \/ SealChain \/ DelChain \/ ShowChains \/ NoFsChain

SpecChain == Init /\ [][NextChain]_vars

AddChainStore == AddChainCmd(TRUE)
SealChainStore == SealChainCmd(TRUE)
DelChainStore == DelChainCmd(TRUE)
RandomChainStore == RandomChainCmd(TRUE)

\* the commands that write the store, logged without their keys
NextStore ==
    AddChainStore \/ SealChainStore \/ DelChainStore \/ RandomChainStore

SpecStore == Init /\ [][NextStore]_vars

(* --------------------- resolution, hop by hop ------------------------- *)

\* pefs_keychain_get is called with key s and flags f
GetStart ==
    /\ rpc = "idle"
    /\ \E s \in Secrets,
          f \in {PEFS_KEYCHAIN_USE, PEFS_KEYCHAIN_IGNORE_MISSING} :
          /\ rkey' = s
          /\ rflags' = f
          /\ kch' = << XKey(s) >>
    /\ rpc' = "run"
    /\ UNCHANGED << store, last, rerr, cvars, ring >>

\* one hop of the resolution loop
GetHop ==
    /\ rpc = "run"
    /\ LET r == keychain_get_step(store, rflags, kch)
       IN  /\ kch' = r.chain
           /\ rerr' = r.err
           /\ rpc' = IF r.done THEN "done" ELSE "run"
    /\ UNCHANGED << store, last, rkey, rflags, cvars, ring >>

\* chains are set up by addchain; then one resolution runs hop by hop
NextResolve ==
    \/ rpc = "idle" /\ AddChainStore
    \/ rpc = "idle" /\ SealChainStore
    \/ GetStart
    \/ GetHop

SpecResolve == Init /\ [][NextResolve]_vars

(* ------------------------- keys into the keyring ---------------------- *)

\* the chain modes of addkey / delkey: default and -c.  (-C passes 0, a
\* mode neither the sources at hand nor the specification describe.)
KeyopFlags == {PEFS_KEYCHAIN_IGNORE_MISSING, PEFS_KEYCHAIN_USE}

\* pefs addkey [-c] filesystem / pefs delkey [-c] filesystem, passphrase s
\* and the keyring refusing the keys of the chain that are in bad
KeyopCmd(func) ==
    \E s \in Secrets, f \in KeyopFlags :
    \E bad \in SUBSET ChainIds(keychain_get(store, f, XKey(s)).chain) :
    LET o == pefs_keyop(func, store, ring, "ok", f, XKey(s), bad)
    IN  /\ ring' = o.ring
        /\ last' = [NoCmd EXCEPT !.op = func, !.k = s, !.flags = f,
                                 !.calls = o.calls, !.res = o.res]
        /\ UNCHANGED << store, rvars, cvars >>

AddKey == KeyopCmd("addkey")
DelKey == KeyopCmd("delkey")

\* addkey or delkey on a path that is not a pefs filesystem or cannot be
\* opened
NoFsKey ==
    /\ \E func \in {"addkey", "delkey"}, env \in {"nofs", "noopen"},
          f \in KeyopFlags :
          LET o == pefs_keyop(func, store, ring, env, f, XKey(1), {})
          IN  /\ ring' = o.ring
              /\ last' = [NoCmd EXCEPT !.op = func, !.flags = f,
                                       !.calls = o.calls, !.res = o.res]
    /\ UNCHANGED << store, rvars, cvars >>

\* chains are set up and taken down, shown, and installed in the keyring
NextKey ==
    \/ AddChainStore
    \/ SealChainStore
    \/ DelChain
    \/ ShowChains
    \/ AddKey
    \/ DelKey
    \/ NoFsKey

SpecKey == Init /\ [][NextKey]_vars

(* --------------------------- acquiring a key -------------------------- *)

\* a command acquires a key: pefs_key_get with or without verification,
\* with or without -p, over what is typed and what the derivation returns
KeyGet ==
    /\ \E verify \in BOOLEAN, kp \in KeyParams,
          typed1 \in Secrets \cup {NoInput}, typed2 \in Secrets \cup {NoInput},
          gen \in GenerateResults :
          LET r == pefs_key_get(verify, kp, typed1, typed2, gen)
          IN  last' = [NoCmd EXCEPT !.op = "key_get", !.res = r.res,
                          !.fx = << [verify |-> verify, kp |-> kp,
                                     typed1 |-> typed1, typed2 |-> typed2,
                                     gen |-> gen, r |-> r] >>]
    /\ UNCHANGED << store, rvars, cvars, ring >>

SpecKeyGet == Init /\ [][KeyGet]_vars

(* ------------------- commands run from their arguments ---------------- *)

\* what is typed at a passphrase prompt: the passphrase of one of two keys,
\* or nothing
Typed == {1, 2, NoInput}

\* an invocation with the filesystem argument missing or with one too many
ArgcArgs == {[PlainArgs EXCEPT !.argc = c] : c \in {0, 2}}

\* invocations that differ from the plain one in -i
IterArgs ==
    {PlainArgs} \cup ArgcArgs
        \cup {[PlainArgs EXCEPT !.iter = Arg(v)] : v \in OptValues}

\* the invocations of addchain: also -I, -Z, and -Z with a chained-key option
AddChainArgs ==
    IterArgs
        \cup {[PlainArgs EXCEPT !.iterc = Arg(v)] : v \in OptValues}
        \cup {[PlainArgs EXCEPT !.zero = TRUE, !.argc = c] : c \in {0, 1}}
        \cup {[PlainArgs EXCEPT !.zero = TRUE, !.chained = TRUE],
              [PlainArgs EXCEPT !.zero = TRUE, !.iterc = Arg(1)]}

\* the invocations of delchain: also -F
DelChainArgs == IterArgs \cup {[PlainArgs EXCEPT !.all = TRUE]}

\* the invocations of addkey and delkey: also -c
KeyopArgs == IterArgs \cup {[PlainArgs EXCEPT !.flags = PEFS_KEYCHAIN_USE]}

\* the invocations of setkey: also -x, alone and with -c
SetKeyArgs ==
    KeyopArgs \cup {[PlainArgs EXCEPT !.x = TRUE],
                    [PlainArgs EXCEPT !.x = TRUE,
                                      !.flags = PEFS_KEYCHAIN_USE]}

\* the invocations of randomchain: -n and -N, one of them off a good pair
RandomChainArgs ==
    {[PlainArgs EXCEPT !.nmin = Arg(n), !.nmax = Arg(3)] : n \in OptValues}
        \cup {[PlainArgs EXCEPT !.nmin = Arg(1), !.nmax = Arg(m)] :
                m \in OptValues}
        \cup {[PlainArgs EXCEPT !.nmin = Arg(1), !.nmax = Arg(3),
                                !.argc = c] : c \in {0, 2}}

\* the runs of a command that reads up to two keys: each invocation of args
\* on a mounted filesystem with two different passphrases typed, the first
\* invocation of args in each environment of envs, and the first invocation
\* with anything typed at either prompt
Runs2(plain, args, envs) ==
    {[a |-> a, env |-> "ok", typed1 |-> 1, typed2 |-> 2] : a \in args}
        \cup {[a |-> plain, env |-> e, typed1 |-> 1, typed2 |-> 2] :
                e \in envs}
        \cup {[a |-> plain, env |-> "ok", typed1 |-> t1, typed2 |-> t2] :
                t1 \in Typed, t2 \in Typed}

\* the same for a command that reads one key
Runs1(plain, args, envs) ==
    {[a |-> a, env |-> "ok", typed1 |-> 1, typed2 |-> NoInput] : a \in args}
        \cup {[a |-> plain, env |-> e, typed1 |-> 1, typed2 |-> NoInput] :
                e \in envs}
        \cup {[a |-> plain, env |-> "ok", typed1 |-> t1, typed2 |-> NoInput] :
                t1 \in Typed}

\* the run of command op on invocation a ends as o
Ran(op, a, o) ==
    /\ store' = o.st
    /\ ring' = o.ring
    /\ last' = [NoCmd EXCEPT !.op = op, !.res = o.res, !.calls = o.calls,
                             !.out = o.out,
                             !.fx = << [req |-> Req(a), did |-> o.fx] >>]
    /\ UNCHANGED << rvars, cvars >>

AddChainRun ==
    \E r \in Runs2(PlainArgs, AddChainArgs, {"nofs", "nodev"}) :
    \E o \in pefs_addchain_run(store, ring, r.a, r.env, r.typed1, r.typed2) :
        Ran("addchain", r.a, o)

DelChainRun ==
    \E r \in Runs1(PlainArgs, DelChainArgs, {"nofs"}) :
    \E o \in pefs_delchain_run(store, ring, r.a, r.env, r.typed1) :
        Ran("delchain", r.a, o)

ShowChainsRun ==
    \E r \in Runs1(PlainArgs, IterArgs, {"nofs"}) :
    \E o \in pefs_showchains_run(store, ring, r.a, r.env, r.typed1) :
        Ran("showchains", r.a, o)

\* the keyring refuses nothing, or everything it is asked
Refusable(a, typed) ==
    IF typed = NoInput THEN {{}}
    ELSE {{}, ChainIds(keychain_get(store, a.flags, XKey(typed)).chain)}

KeyopRun(func) ==
    \E r \in Runs1(PlainArgs, KeyopArgs, {"nofs", "noopen"}) :
    \E bad \in Refusable(r.a, r.typed1) :
    \E o \in pefs_keyop_run(func, store, ring, r.a, r.env, r.typed1, bad) :
        Ran(func, r.a, o)

AddKeyRun == KeyopRun("addkey")
DelKeyRun == KeyopRun("delkey")

SetKeyRun ==
    \E r \in Runs1(PlainArgs, SetKeyArgs, {"nofs", "noopen"}),
       setok \in BOOLEAN :
    \E o \in pefs_setkey_run(store, ring, r.a, r.env, r.typed1, setok) :
        Ran("setkey", r.a, o)

RandomChainRun ==
    \E r \in Runs1([PlainArgs EXCEPT !.nmin = Arg(1), !.nmax = Arg(3)],
                   RandomChainArgs, {"nofs", "nodev"}) :
    \E o \in pefs_randomchain_run(store, ring, r.a, r.env) :
        Ran("randomchain", r.a, o)

\* the commands of pefs_ctl run one after another, each from its arguments
NextCtl ==
    \/ AddChainRun
    \/ DelChainRun
    \/ ShowChainsRun
    \/ AddKeyRun
    \/ DelKeyRun
    \/ SetKeyRun
    \/ RandomChainRun

SpecCtl == Init /\ [][NextCtl]_vars

(* ----------------------- concurrent invocations ----------------------- *)

\* pefs_addchain of invocation p up to line 773: keys read, parent's chain
\* resolved and checked
AddGet(p) ==
    /\ pc[p] = "idle"
    /\ \E s1 \in Secrets, s2 \in Secrets :
       \E c \in AddChainCheck(
                keychain_get(store, PEFS_KEYCHAIN_IGNORE_MISSING, XKey(s1)),
                XKey(s2)) :
          /\ pc' = [pc EXCEPT ![p] = IF c = "set" THEN "add_set" ELSE "done"]
          /\ inv' = [inv EXCEPT ![p] = [NoInv EXCEPT !.op = "addchain",
                        !.k = s1, !.c = s2,
                        !.res = IF c = "set" THEN Ok ELSE c]]
    /\ UNCHANGED << store, last, rvars, ring >>

\* pefs_addchain of invocation p, lines 775-788
AddSet(p) ==
    /\ pc[p] = "add_set"
    /\ LET o == AddChainSet(store, XKey(inv[p].k), XKey(inv[p].c))
       IN  /\ store' = o.st
           /\ inv' = [inv EXCEPT ![p].res = o.res]
    /\ pc' = [pc EXCEPT ![p] = "done"]
    /\ UNCHANGED << last, rvars, ring >>

\* pefs_addchain -Z of invocation p: the one call of lines 735
SealSet(p) ==
    /\ pc[p] = "idle"
    /\ \E s1 \in Secrets :
       LET o == AddChainSet(store, XKey(s1), TerminalKey)
       IN  /\ store' = o.st
           /\ inv' = [inv EXCEPT ![p] = [NoInv EXCEPT !.op = "addchain -Z",
                                                     !.k = s1, !.res = o.res]]
    /\ pc' = [pc EXCEPT ![p] = "done"]
    /\ UNCHANGED << last, rvars, ring >>

\* pefs_delchain of invocation p up to line 849: the chain is resolved
DelGet(p) ==
    /\ pc[p] = "idle"
    /\ \E s \in Secrets, deleteall \in BOOLEAN :
       LET g == keychain_get(store, PEFS_KEYCHAIN_USE, XKey(s))
       IN  /\ pc' = [pc EXCEPT ![p] = IF g.err # Ok THEN "done" ELSE "del_loop"]
           /\ inv' = [inv EXCEPT ![p] = [NoInv EXCEPT !.op = "delchain",
                        !.k = s, !.all = deleteall, !.chain = g.chain,
                        !.i = IF g.err # Ok THEN 0 ELSE 1,
                        !.res = IF g.err # Ok THEN PEFS_ERR_INVALID ELSE Ok]]
    /\ UNCHANGED << store, last, rvars, ring >>

\* pefs_delchain of invocation p: one pass of the loop of lines 851-870
DelStep(p) ==
    /\ pc[p] = "del_loop"
    /\ LET d == DelChainIter(store, inv[p].chain, inv[p].i, inv[p].all)
       IN  /\ store' = d.st
           /\ pc' = [pc EXCEPT ![p] = IF d.cont THEN "del_loop" ELSE "done"]
           /\ inv' = [inv EXCEPT ![p].i = IF d.cont THEN @ + 1 ELSE @]
    /\ UNCHANGED << last, rvars, ring >>

\* the process of invocation p ends; another command may be started
Exit(p) ==
    /\ pc[p] = "done"
    /\ pc' = [pc EXCEPT ![p] = "idle"]
    /\ inv' = [inv EXCEPT ![p] = NoInv]
    /\ UNCHANGED << store, last, rvars, ring >>

\* two invocations of addchain / delchain on the same filesystem, each call
\* into the key-chain store being one step
NextConc ==
    \E p \in Procs :
        AddGet(p) \/ AddSet(p) \/ SealSet(p) \/ DelGet(p) \/ DelStep(p) \/ Exit(p)

SpecConc == Init /\ [][NextConc]_vars

(* ------------------------------- claims ------------------------------- *)

Resolved(chain) == [err |-> Ok, chain |-> chain]

\* key c has no successor in st: no link is keyed by its identifier, or
\* the link decrypts under c to the terminal marker
ChildTerminal(st, c) ==
    \A l \in Lookup(st, c.keyid) :
        l.enc = c.key /\ l.next.alg = PEFS_ALG_INVALID

\* the last command was  addchain  with a real child, and it succeeded
AddSucceeded ==
    last.op = "addchain" /\ ~last.zero /\ last.k # 0 /\ last.res = Ok

\* C1 as stated, where resolution yields a chain: after a successful
\* add(K, C), the chain resolve(K, use) yields is exactly [K, C].
C1_AddThenResolveIsPair ==
    AddSucceeded =>
        LET g == keychain_get(store, PEFS_KEYCHAIN_USE, XKey(last.k))
        IN  g.err = Ok => g.chain = << XKey(last.k), XKey(last.c) >>

\* C1 amended: after a successful add(K, C), resolve(K, use) yields exactly
\* [K, C] when C has no successor of its own; whenever it succeeds, the
\* chain begins with K, C.
C1_AddThenResolveBeginsPair ==
    AddSucceeded =>
        LET g == keychain_get(store, PEFS_KEYCHAIN_USE, XKey(last.k))
        IN  /\ g.err = Ok =>
                /\ Len(g.chain) >= 2
                /\ g.chain[1] = XKey(last.k)
                /\ g.chain[2] = XKey(last.c)
            /\ ChildTerminal(store, XKey(last.c)) =>
                g = Resolved(<< XKey(last.k), XKey(last.c) >>)

\* a successful add(K, C) onto a child without successor, resolved to [K, C]
C1_Witness ==
    /\ AddSucceeded
    /\ ChildTerminal(store, XKey(last.c))
    /\ keychain_get(store, PEFS_KEYCHAIN_USE, XKey(last.k))
          = Resolved(<< XKey(last.k), XKey(last.c) >>)

\* the step is  addchain  of parent K with real child C2 while the store
\* holds the link K -> c0 of an earlier successful add, c0 # C2
AddOntoLinked(c0) ==
    /\ last'.op = "addchain" /\ ~last'.zero /\ last'.k # 0
    /\ c0 # last'.c
    /\ Link(XKey(last'.k), XKey(c0)) \in store

C3_OneLinkPerParent ==
    \A l1 \in store, l2 \in store : l1.id = l2.id => l1 = l2

\* decoys were injected onto identifiers already keyed in a store that holds
\* real, seal and decoy links
C3_Witness ==
    /\ last.op = "randomchain" /\ last.dup /\ last.coll
    /\ \E l \in store : l.next.alg # PEFS_ALG_INVALID
    /\ \E l \in store : l.enc # RandomSecret /\ l.next.alg = PEFS_ALG_INVALID
    /\ \E l \in store : l.enc = RandomSecret

\* C4: every variant of add (real child or -Z) on a parent whose identifier
\* already has a stored outgoing link fails and leaves the store as it was.
C4_AddOnLinkedParentFails ==
    [][(/\ last'.op = "addchain" /\ last'.k # 0
        /\ Lookup(store, KeyId(last'.k)) # {})
          => (last'.res # Ok /\ store' = store)]_vars

\* a seal of a parent that already has a link was refused
C4_Witness ==
    /\ last.op = "addchain" /\ last.zero /\ last.k # 0
    /\ last.res = PEFS_ERR_INVALID
    /\ Lookup(store, KeyId(last.k)) # {}

\* the step is  delchain  from key A whose chain resolves to three elements
DelFromTriple(deleteall) ==
    /\ last'.op = "delchain" /\ last'.k # 0 /\ last'.all = deleteall
    /\ LET g == keychain_get(store, PEFS_KEYCHAIN_USE, XKey(last'.k))
       IN  g.err = Ok /\ Len(g.chain) = 3

\* C5: for a stored chain [A, B, C], delchain without -F from A removes
\* only the link keyed by A; afterwards resolve(A, ignore-missing) yields
\* [A] and resolve(B, use) yields [B, C].
C5_SingleStepDelete ==
    [][DelFromTriple(FALSE) =>
        LET A == XKey(last'.k)
            g == keychain_get(store, PEFS_KEYCHAIN_USE, A)
        IN  /\ store' = store \ Lookup(store, A.keyid)
            /\ Lookup(store, A.keyid) # {}
            /\ keychain_get(store', PEFS_KEYCHAIN_IGNORE_MISSING, A)
                  = Resolved(<< A >>)
            /\ keychain_get(store', PEFS_KEYCHAIN_USE, g.chain[2])
                  = Resolved(<< g.chain[2], g.chain[3] >>)]_vars

\* delchain without -F ran on a three-element chain; its head has no link
\* left and a two-element chain remains
C5_Witness ==
    /\ last.op = "delchain" /\ ~last.all /\ last.len = 3 /\ last.res = Ok
    /\ Lookup(store, KeyId(last.k)) = {}
    /\ \E b \in Secrets :
          LET g == keychain_get(store, PEFS_KEYCHAIN_USE, XKey(b))
          IN  g.err = Ok /\ Len(g.chain) = 2

\* C6: for a stored chain [A, B, C], delchain -F from A removes the links
\* keyed by A and by B (and C's, if it has one); afterwards A, B and C each
\* resolve, in ignore-missing mode, to a one-element chain.
C6_FullDelete ==
    [][DelFromTriple(TRUE) =>
        LET g == keychain_get(store, PEFS_KEYCHAIN_USE, XKey(last'.k))
        IN  /\ last'.res = Ok
            /\ store' = store \ {l \in store : l.id \in ChainIds(g.chain)}
            /\ \A i \in 1..2 : Lookup(store, g.chain[i].keyid) # {}
            /\ \A i \in 1..3 :
                  keychain_get(store', PEFS_KEYCHAIN_IGNORE_MISSING, g.chain[i])
                      = Resolved(<< g.chain[i] >>)]_vars

\* delchain -F ran on a three-element chain and its head resolves alone
C6_Witness ==
    /\ last.op = "delchain" /\ last.all /\ last.len = 3 /\ last.res = Ok
    /\ keychain_get(store, PEFS_KEYCHAIN_IGNORE_MISSING, XKey(last.k))
          = Resolved(<< XKey(last.k) >>)

\* C7 as stated: randomchain that drew N from [lower bound, upper bound)
\* inserts exactly N decoy links.
C7_InjectsDrawnCount ==
    [][(last'.op = "randomchain" /\ last'.n > 0)
          => Cardinality(store') = Cardinality(store) + last'.n]_vars

\* C7 amended: randomchain that drew N inserts at most N / 2 (rounded down)
\* decoy links, and exactly that many when no random parent identifier is
\* keyed in the store already or drawn twice.
C7_InjectsHalfDrawnCount ==
    [][(last'.op = "randomchain" /\ last'.n > 0) =>
        /\ Cardinality(store') <= Cardinality(store) + (last'.n \div 2)
        /\ ~last'.dup =>
              Cardinality(store') = Cardinality(store) + (last'.n \div 2)]_vars

\* randomchain drew 4 and left two decoy links in the store
C7_Witness ==
    /\ last.op = "randomchain" /\ last.n = 4 /\ ~last.dup
    /\ Cardinality({l \in store : l.enc = RandomSecret}) >= 2

\* C8: randomchain never changes or removes a pre-existing link, and when
\* no decoy identifier equals a real key's identifier every real key
\* resolves, in every mode, to what it resolved to before.
C8_DecoysKeepChains ==
    [][last'.op = "randomchain" =>
        /\ store \subseteq store'
        /\ ~last'.coll =>
              \A s \in Secrets :
              \A f \in {PEFS_KEYCHAIN_USE, PEFS_KEYCHAIN_IGNORE_MISSING} :
                  keychain_get(store', f, XKey(s))
                      = keychain_get(store, f, XKey(s))]_vars

\* decoys were injected next to a real chain that still resolves
C8_Witness ==
    /\ last.op = "randomchain" /\ ~last.coll /\ last.n >= 2
    /\ \E l \in store : l.enc = RandomSecret
    /\ \E s \in Secrets :
          Len(keychain_get(store, PEFS_KEYCHAIN_USE, XKey(s)).chain) >= 2

\* key k has a successor in st: the link keyed by its identifier decrypts
\* under k to a real key
HasSuccessor(st, k) ==
    \E l \in Lookup(st, k.keyid) :
        l.enc = k.key /\ l.next.alg # PEFS_ALG_INVALID

Successor(st, k) == (CHOOSE l \in Lookup(st, k.keyid) : TRUE).next

\* n links can be followed from key k
RECURSIVE CanFollow(_, _, _)
CanFollow(st, k, n) ==
    n = 0 \/ (HasSuccessor(st, k) /\ CanFollow(st, Successor(st, k), n - 1))

\* the links followed from k run into a cycle: more links can be followed
\* than the store holds
LeadsIntoCycle(st, k) == CanFollow(st, k, Cardinality(st) + 1)

C10_ExclusiveReadModifyWrite ==
    [][/\ \A p \in Procs :
            (pc[p] \in {"add_set", "del_loop"} /\ pc'[p] = pc[p]
                /\ inv'[p] = inv[p]) => store' = store
       /\ \A p \in Procs, q \in Procs :
            (/\ p # q /\ pc'[p] = "done" /\ pc'[q] = "done"
             /\ inv'[p].op = "addchain" /\ inv'[q].op = "addchain"
             /\ inv'[p].k = inv'[q].k /\ inv'[p].c # inv'[q].c)
                => ~(inv'[p].res = Ok /\ inv'[q].res = Ok)]_vars

\* the step is  addkey  whose chain resolved, run on an openable filesystem
AddKeyRan ==
    /\ last'.op = "addkey" /\ last'.k # 0
    /\ keychain_get(store, last'.flags, XKey(last'.k)).err = Ok

\* C12: addkey issues one install request per key of the resolved chain,
\* strictly in root-to-leaf order; when the request for the i-th key fails
\* no further request is made, the keys 1..i-1 stay installed and the
\* command returns an error; otherwise every key is installed and the
\* command succeeds.
C12_InstallInChainOrder ==
    [][AddKeyRan =>
        LET ch == keychain_get(store, last'.flags, XKey(last'.k)).chain
            calls == last'.calls
            n == Len(calls)
        IN  /\ 1 <= n /\ n <= Len(ch)
            /\ \A i \in 1..n : calls[i].id = ch[i].keyid
            /\ \A i \in 1..(n - 1) : calls[i].ok
            /\ calls[n].ok => (n = Len(ch) /\ last'.res = Ok)
            /\ ~calls[n].ok =>
                  (last'.res # Ok /\ ring' = ring \cup {ch[i].keyid : i \in 1..(n - 1)})
            /\ calls[n].ok => ring' = ring \cup ChainIds(ch)]_vars

\* addkey on a three-element chain was refused at its third key, and the
\* first two keys are in the keyring
C12_Witness ==
    /\ last.op = "addkey" /\ last.res = ErrKeyop
    /\ Len(last.calls) = 3 /\ ~last.calls[3].ok
    /\ {last.calls[1].id, last.calls[2].id} \subseteq ring
    /\ last.calls[3].id \notin ring

\* C13: a failure other than an absorbed not-found reaches the caller as a
\* non-success result: when a removal fails during delchain, the command
\* ends with an error status.
C13_FailedRemovalReported ==
    [][\A p \in Procs :
        (/\ pc[p] = "del_loop" /\ pc'[p] = "done"
         /\ DelChainIter(store, inv[p].chain, inv[p].i, inv[p].all).err # Ok)
            => inv'[p].res # Ok]_vars

\* C19: in delchain -F the links are removed in root-to-leaf order of the
\* chain resolved once at the start, one element per pass, and the loop
\* stops at the first removal that fails: that pass and the end of the
\* command leave the store as it is, so the links keyed by the elements
\* after the failing one are still stored.
C19_FullDeleteStopsAtFailure ==
    [][\A p \in Procs :
        (pc[p] = "del_loop" /\ << pc'[p], inv'[p] >> # << pc[p], inv[p] >>)
        =>
        LET ch == inv[p].chain
            i == inv[p].i
            d == keychain_del(store,
                    IF i = Len(ch) THEN PEFS_KEYCHAIN_IGNORE_MISSING ELSE 0,
                    ch[i])
        IN  /\ inv'[p].chain = ch
            /\ store' = d.st
            /\ store \ store' \subseteq Lookup(store, ch[i].keyid)
            /\ d.err # Ok =>
                  /\ pc'[p] = "done"
                  /\ store' = store
                  /\ \A j \in (i + 1)..Len(ch) :
                        Lookup(store', ch[j].keyid) = Lookup(store, ch[j].keyid)
            /\ (d.err = Ok /\ inv[p].all /\ i < Len(ch)) =>
                  (pc'[p] = "del_loop" /\ inv'[p].i = i + 1)]_vars

\* a delchain -F that resolved three elements stopped at a failing removal
\* of the second, and the link keyed by the third is still stored
C19_Witness ==
    \E p \in Procs :
        /\ pc[p] = "done" /\ inv[p].op = "delchain" /\ inv[p].all
        /\ Len(inv[p].chain) = 3 /\ inv[p].i = 2
        /\ Lookup(store, inv[p].chain[1].keyid) = {}
        /\ Lookup(store, inv[p].chain[3].keyid) # {}

\* C14: for a key K with no stored link, resolution fails with the
\* not-found error in mode use, so that delchain and showchains from K fail,
\* change nothing and print no chain; in mode ignore-missing it yields the
\* one-element chain [K], so that addkey without -c asks the keyring to
\* install K and nothing else.
C14_MissingLinkPerMode ==
    [][\A s \in Secrets :
        (last'.k = s /\ Lookup(store, KeyId(s)) = {}) =>
          /\ keychain_get(store, PEFS_KEYCHAIN_USE, XKey(s))
                = [err |-> ErrNotFound, chain |-> << >>]
          /\ keychain_get(store, PEFS_KEYCHAIN_IGNORE_MISSING, XKey(s))
                = Resolved(<< XKey(s) >>)
          /\ last'.op \in {"delchain", "showchains"} =>
                /\ last'.res = PEFS_ERR_INVALID
                /\ store' = store
                /\ last'.out = << >>
          /\ (last'.op = "addkey"
                /\ last'.flags = PEFS_KEYCHAIN_IGNORE_MISSING) =>
                /\ Len(last'.calls) = 1
                /\ last'.calls[1].id = KeyId(s)
                /\ last'.calls[1].ok =>
                      (last'.res = Ok /\ ring' = ring \cup {KeyId(s)})
                /\ ~last'.calls[1].ok => ring' = ring]_vars

\* addkey without -c installed a key that has no link, in a store that
\* holds a chain
C14_Witness ==
    /\ last.op = "addkey" /\ last.k # 0
    /\ last.flags = PEFS_KEYCHAIN_IGNORE_MISSING
    /\ Lookup(store, KeyId(last.k)) = {}
    /\ last.calls = << Call(XKey(last.k), TRUE) >>
    /\ last.res = Ok /\ KeyId(last.k) \in ring
    /\ store # {}

\* C16: after a successful seal of K (addchain -Z), resolve(K, use)
\* succeeds with exactly the one-element chain [K]: the link stored for K
\* carries the invalid algorithm sentinel and no element is appended.
C16_SealResolvesAlone ==
    (last.op = "addchain" /\ last.zero /\ last.k # 0 /\ last.res = Ok) =>
        /\ \A l \in Lookup(store, KeyId(last.k)) :
              l.enc = last.k /\ l.next.alg = PEFS_ALG_INVALID
        /\ Lookup(store, KeyId(last.k)) # {}
        /\ keychain_get(store, PEFS_KEYCHAIN_USE, XKey(last.k))
              = Resolved(<< XKey(last.k) >>)

\* a key at the end of a stored chain was sealed and resolves alone
C16_Witness ==
    /\ last.op = "addchain" /\ last.zero /\ last.k # 0 /\ last.res = Ok
    /\ keychain_get(store, PEFS_KEYCHAIN_USE, XKey(last.k))
          = Resolved(<< XKey(last.k) >>)
    /\ \E l \in store : l.next = XKey(last.k)

\* C18: in every state reachable by add, seal and delete from the empty
\* store the links contain no cycle: following links from any key never
\* comes back to an identifier already visited.
C18_StoreAcyclic ==
    \A s \in Secrets : ~LeadsIntoCycle(store, XKey(s))

\* C17: when key acquisition returns or exits, on the success path and on
\* every failure path (passphrase unreadable, mismatch on verify, derivation
\* error), none of the transient passphrase buffers (buf and buf2 of
\* pefs_readpassphrase, buf of pefs_key_get) holds a passphrase: each one
\* that was written has been zero-filled.
C17_PassphraseBuffersCleared ==
    last.op = "key_get" =>
        LET r == last.fx[1].r
        IN  r.buf = Clear /\ r.rbuf = Clear /\ r.rbuf2 = Clear

\* a key was acquired from a passphrase typed twice, and the buffers the
\* passphrase went through are clear
C17_Witness ==
    /\ last.op = "key_get"
    /\ LET f == last.fx[1]
       IN  /\ f.verify /\ ~f.kp.nopassphrase
           /\ f.typed1 # NoInput /\ f.typed1 = f.typed2 /\ f.gen = Ok
           /\ ~f.r.exit /\ f.r.xk = Held(f.typed1)
           /\ f.r.buf = Clear /\ f.r.rbuf = Clear /\ f.r.rbuf2 = Clear

\* the effects of the command that ran last, when it ran from its arguments
RanFrom(ops) == last.op \in ops /\ last.fx # << >>

\* C11: when addchain, delchain, addkey, delkey, setkey or showchains ends,
\* by a return or by an exit, every key structure that held a raw secret
\* has been zero-filled
C11_KeyBuffersCleared ==
    RanFrom({"addchain", "delchain", "addkey", "delkey", "setkey",
             "showchains"})
        => /\ last.fx[1].did.k1 = Clear
           /\ last.fx[1].did.k2 = Clear

\* C15: addkey, delkey, setkey, addchain, delchain or showchains asked for an
\* iteration count <= 0 (-i or -I) ends in a usage error without having
\* derived a key, called the key-chain store or called the keyring
C15_NonPositiveIterationsRejected ==
    (RanFrom({"addchain", "delchain", "addkey", "delkey", "setkey",
              "showchains"}) /\ last.fx[1].req.nonpos)
        => /\ last.res = PEFS_ERR_USAGE
           /\ ~last.fx[1].did.derived
           /\ ~last.fx[1].did.store
           /\ ~last.fx[1].did.keyring

\* the invocation asks for what C20 calls a usage error
UsageAsked(op, req) ==
    \/ op = "addchain" /\ req.zconflict
    \/ op = "randomchain" /\ (req.nonposbound \/ req.badorder)
    \/ req.argc # 1

\* C20: a command invoked with -Z and a chained-key option (addchain), with a
\* non-positive bound or a lower bound >= the upper bound (randomchain), or
\* without exactly one filesystem argument makes no call to the key-chain
\* store and leaves the store as it was
C20_UsageErrorBeforeStore ==
    [][(last'.fx # << >> /\ Len(last'.fx) = 1 /\ last'.op # "key_get"
            /\ UsageAsked(last'.op, last'.fx[1].req))
        => (~last'.fx[1].did.store /\ store' = store)]_vars


\* the chain that pefs_addchain resolves from the parent of the command
\* logged in c, in store st
ParentChain(st, c) ==
    keychain_get(st, PEFS_KEYCHAIN_IGNORE_MISSING, XKey(c.k))

\* C21: addchain with a real chained key whose identifier is that of an
\* element of the chain resolved from the parent in ignore-missing mode (the
\* parent itself included) exits with PEFS_ERR_INVALID and leaves the store
\* as it was; and no addchain with a real chained key stores a link whose
\* child identifier is its parent identifier.
C21_ChildInChainRejected ==
    [][(last'.op = "addchain" /\ ~last'.zero /\ last'.k \in Secrets)
        => /\ (/\ ParentChain(store, last').err = Ok
               /\ KeyId(last'.c) \in ChainIds(ParentChain(store, last').chain))
                => (last'.res = PEFS_ERR_INVALID /\ store' = store)
           /\ \A l \in store' \ store : l.next.keyid # l.id]_vars

\* addchain was refused for a chained key equal to a parent that has no link
\* of its own, beside other links in the store: only the comparison with the
\* head of the resolved chain stands between the command and the insert
C21_Witness ==
    /\ last.op = "addchain" /\ ~last.zero /\ last.k \in Secrets
    /\ last.res = PEFS_ERR_INVALID
    /\ last.c = last.k
    /\ ParentChain(store, last) = [err |-> Ok, chain |-> << XKey(last.k) >>]
    /\ Lookup(store, KeyId(last.k)) = {}
    /\ store # {}

\* what the command that ran last from its arguments did on its way
Did == last.fx[1].did

\* C22: when pefs_keychain_get fails in addkey or delkey (no link in use
\* mode, invalid chain, corruption) the command makes no request to the
\* keyring, the keyring stays as it was and the exit status is
\* PEFS_ERR_INVALID.
C22_FailedResolutionNoKeyring ==
    [][(/\ last'.op \in {"addkey", "delkey"} /\ last'.fx # << >>
        /\ last'.fx[1].did.get # << >>
        /\ last'.fx[1].did.get[1] # Ok)
        => /\ last'.calls = << >>
           /\ ~last'.fx[1].did.keyring
           /\ ring' = ring
           /\ last'.res = PEFS_ERR_INVALID]_vars

\* addkey ended on a chain that does not decrypt, with keys in the keyring
\* and none requested
C22_Witness ==
    /\ RanFrom({"addkey"})
    /\ Did.get = << ErrInvalidChain >>
    /\ last.calls = << >> /\ last.res = PEFS_ERR_INVALID
    /\ ring # {}


\* the step is  delkey  whose chain resolved, run on an openable filesystem
DelKeyRan ==
    /\ last'.op = "delkey" /\ last'.k # 0
    /\ keychain_get(store, last'.flags, XKey(last'.k)).err = Ok

\* C23: delkey issues one remove request per key of the resolved chain, in
\* root-to-leaf order, whether or not earlier requests failed; the keys
\* whose request succeeded, and only they, leave the keyring.
C23_RemoveEveryKeyInOrder ==
    [][DelKeyRan =>
        LET ch == keychain_get(store, last'.flags, XKey(last'.k)).chain
            calls == last'.calls
        IN  /\ Len(calls) = Len(ch)
            /\ \A i \in 1..Len(ch) : calls[i].id = ch[i].keyid
            /\ ring' = ring \ {calls[i].id : i \in {j \in 1..Len(ch) :
                                                        calls[j].ok}}]_vars

\* delkey on a three-element chain: the request for the first key was
\* refused and the key is still in the keyring, the requests for the two
\* keys after it were made and granted
C23_Witness ==
    /\ last.op = "delkey" /\ Len(last.calls) = 3
    /\ ~last.calls[1].ok /\ last.calls[2].ok /\ last.calls[3].ok
    /\ last.calls[1].id \in ring
    /\ last.calls[2].id \notin ring /\ last.calls[3].id \notin ring


====
